---- MODULE Spec2Model ----
(***************************************************************************)
(* Model of the Dune Analytics client (src/src/client.rs): the primitive   *)
(* requests (execute, status, results, cancel), the response handling of   *)
(* handle_response, and the polling loop of wait_for_results as entered    *)
(* directly or through run_sql / run_query.                                *)
(*                                                                         *)
(* Time is counted in ticks of 1/UnitsPerSec second.  Every await of the   *)
(* code is a separate step: a request is sent, the service answers it (or  *)
(* the transport fails), and the task resumes on the answer.               *)
(*                                                                         *)
(* Specifications: Spec (one caller), SpecCancel (with a caller of         *)
(* cancel_execution), SpecTwo (two callers of run_sql at once), SpecLive   *)
(* (Spec with fairness), SpecNew (the constructor, for each api_key) and   *)
(* SpecResp (handle_response and handle_text_response, for each response). *)
(***************************************************************************)
EXTENDS Integers, Sequences, FiniteSets, TLC

\* ---------------------------------------------------------------- bounds
UnitsPerSec == 2
MaxTime == 5
MaxTimeout == 4
MaxKeyLen == 2

\* ------------------------------------------------------------- constants
\* let poll_interval = Duration::from_secs(1);
PollIntervalSecs == 1
PollInterval == PollIntervalSecs * UnitsPerSec

\* the caller followed in most of what follows, and the callers when two
\* of them use the client at once
Tasks == {"t1"}
Waiters == {"t1", "t2"}
Cancellers == {"c1"}
\* execution ids, in the order the service hands them out
HandleSeq == <<"A", "B">>
Handles == {HandleSeq[i] : i \in DOMAIN HandleSeq}
Rows == {"r1", "r2"}
\* the `timeout` arguments tried: zero, a fraction of a second, and longer
\* than a poll interval
Timeouts == {0, 1, MaxTimeout}

\* enum ExecutionState, as matched exhaustively in wait_for_results
NonTerminal == {"Pending", "Executing"}
Terminal == {"Completed", "Failed", "Cancelled"}
States == NonTerminal \cup Terminal
NoExecution == "NoExecution"

Null == "null"
NoField == "absent"
None == [kind |-> "None"]
\* a JSON body without the payload of any response type
NoValue == [shape |-> "none"]

\* ------------------------------------------------- responses and errors
\* A response body: JSON carrying a payload, JSON carrying a string
\* `error` field, or text that is not JSON.
JsonBody(v) == [json |-> TRUE, error |-> NoField, value |-> v, text |-> Null]
JsonError(msg) == [json |-> TRUE, error |-> msg, value |-> NoValue, text |-> Null]
TextBody(s) == [json |-> FALSE, error |-> NoField, value |-> NoValue, text |-> s]

ErrorBodies == {JsonError("bad query"), JsonBody(NoValue), TextBody("oops")}
UndecodableBodies == {TextBody("oops")}

HttpResponse(code, body) == [transport |-> TRUE, code |-> code, body |-> body]
\* reqwest's send() returned Err
SendFailed == [transport |-> FALSE, code |-> 0, body |-> TextBody(Null)]

\* StatusCode::is_success
IsSuccess(code) == code >= 200 /\ code <= 299

\* DuneError values
ApiError(msg) == [kind |-> "Api", message |-> msg]
HttpError == [kind |-> "Http"]
JsonDecodeError == [kind |-> "Json"]
TimeoutError(secs) == [kind |-> "Timeout", seconds |-> secs]
CancelledError == [kind |-> "Cancelled"]
\* (variant: the message names neither the execution nor its status)
ExecutionFailedBare(h, status) ==
    [kind |-> "ExecutionFailed", message |-> <<"Query execution failed">>]

ExecutionFailedError(h, status) ==
    [kind |-> "ExecutionFailed",
     message |-> <<"Query execution failed for execution_id", h, status>>]
Ok(v) == [kind |-> "Ok", value |-> v]

\* serde_json::from_str::<T>(&body): the payload must have the shape of T
Deserialize(body, shape) ==
    IF body.json /\ body.value.shape = shape
    THEN Ok(body.value)
    ELSE JsonDecodeError

\* (variant: the `error` field of a rejected response is not looked at)
HandleResponseRaw(resp, shape) ==
    IF IsSuccess(resp.code)
    THEN Deserialize(resp.body, shape)
    ELSE ApiError(<<"HTTP", resp.code, resp.body>>)

\* handle_text_response: the body of a success is returned as it is; the
\* body of a rejection is not parsed
HandleTextResponse(resp) ==
    IF IsSuccess(resp.code)
    THEN Ok(resp.body)
    ELSE ApiError(<<"HTTP", resp.code, resp.body>>)

\* handle_response::<T>; a body's `error` is what
\* `.get("error").and_then(|e| e.as_str())` finds in it
HandleResponse(resp, shape) ==
    IF IsSuccess(resp.code)
    THEN Deserialize(resp.body, shape)
    ELSE IF resp.body.json /\ resp.body.error # NoField
         THEN ApiError(resp.body.error)
         ELSE ApiError(<<"HTTP", resp.code, resp.body>>)

\* `self.client.<method>(url).send().await?` followed by handle_response
Received(resp, shape) ==
    IF resp.transport THEN HandleResponse(resp, shape) ELSE HttpError

\* Duration::as_secs
AsSecs(d) == d \div UnitsPerSec


\* ------------------------------------------------------------ constructor
\* const BASE_URL, and a caller's own URL for with_base_url
BASE_URL == "https://api.dune.com/api"
BaseUrls == {BASE_URL, "http://localhost"}
\* const DEFAULT_TIMEOUT_SECS: u64 = 30
DEFAULT_TIMEOUT_SECS == 30

\* Bytes an api_key is made of: tab, line feed, space, 'a', DEL and a byte
\* of a multi-byte UTF-8 character.
KeyBytes == {9, 10, 32, 97, 127, 200}
Keys == UNION {[1..n -> KeyBytes] : n \in 0..MaxKeyLen}

InvalidApiKeyError == [kind |-> "InvalidApiKey"]

\* (variant: only visible ASCII and tab are accepted)
IsVisibleAscii(b) == (b >= 32 /\ b < 127) \/ b = 9

\* the byte test of HeaderValue::from_str
IsValidHeaderByte(b) == (b >= 32 /\ b # 127) \/ b = 9

\* header::HeaderValue::from_str(&api_key) is Ok
HeaderValueFromStr(key) == \A i \in 1..Len(key) : IsValidHeaderByte(key[i])

\* (variant: the empty key is not tested for)
WithBaseUrlUnchecked(api_key, base_url, builds) ==
    IF ~HeaderValueFromStr(api_key) THEN InvalidApiKeyError
    ELSE IF ~builds THEN HttpError
    ELSE Ok([headers |-> [XDuneApiKey |-> api_key], base_url |-> base_url,
             timeout |-> DEFAULT_TIMEOUT_SECS])

\* DuneClient::with_base_url; `builds` tells whether reqwest's
\* ClientBuilder::build succeeds
WithBaseUrl(api_key, base_url, builds) ==
    IF api_key = <<>> THEN InvalidApiKeyError
    ELSE IF ~HeaderValueFromStr(api_key) THEN InvalidApiKeyError
    ELSE IF ~builds THEN HttpError
    ELSE Ok([headers |-> [XDuneApiKey |-> api_key], base_url |-> base_url,
             timeout |-> DEFAULT_TIMEOUT_SECS])


\* ------------------------------------------------------ response payloads
ExecuteResponse(h) == [shape |-> "ExecuteResponse", execution_id |-> h]
ExecutionStatusResponse(h, s) ==
    [shape |-> "ExecutionStatusResponse", execution_id |-> h, state |-> s]
ExecutionResultsResponse(h, s, r) ==
    [shape |-> "ExecutionResultsResponse", execution_id |-> h, state |-> s,
     result |-> r]
CancelExecutionResponse(b) == [shape |-> "CancelExecutionResponse", success |-> b]

\* ------------------------------------------------------------------ state
VARIABLES
    now,        \* wall clock (std::time::Instant), in ticks
    remote,     \* the service's state of each execution
    net,        \* requests in flight, with the answer once there is one
    pc,         \* where each caller of run_sql / wait_for_results is
    hnd,        \* its execution_id
    timeout,    \* its `timeout` argument
    start,      \* its `start` instant
    sleepUntil, \* deadline of its tokio::time::sleep
    outcome,    \* what the call returned
    cpc,        \* where each caller of cancel_execution is
    coutcome,   \* what cancel_execution returned
    \* history of the calls, kept for the properties
    polls,      \* status requests issued by the wait
    fetches,    \* results requests issued by the wait
    observed,   \* states the wait's status polls returned, in order
    lastIssue,  \* instant of the wait's last status request
    lastRet,    \* instant the wait's last status poll returned
    lastResp,   \* raw response of the wait's last request
    cancelCall, \* polls issued when cancel was called during the wait, or -1
    cancelDone, \* polls issued when the service applied a cancel during the
                \* wait, or -1
    \* the calls that touch no execution
    apiKey,     \* the `api_key` argument of DuneClient::new / with_base_url
    baseUrl,    \* the `base_url` the client is built with
    client,     \* what the constructor returned
    response,   \* a response handed to handle_response / handle_text_response
    handled     \* what each of the two made of it

vars == <<now, remote, net, pc, hnd, timeout, start, sleepUntil, outcome, cpc,
          coutcome, polls, fetches, observed, lastIssue, lastRet, lastResp,
          cancelCall, cancelDone, apiKey, baseUrl, client, response, handled>>

waitVars == <<pc, hnd, timeout, start, sleepUntil, outcome>>
histVars == <<polls, fetches, observed, lastIssue, lastRet, lastResp>>
cancelHist == <<cancelCall, cancelDone>>
cancelVars == <<cpc, coutcome>>
ctorVars == <<apiKey, baseUrl, client>>
respVars == <<response, handled>>
pureVars == <<ctorVars, respVars>>

\* wait_for_results is running
InWait(t) == pc[t] \in {"loop", "awaitStatus", "sleeping", "awaitResults"}

Request(t, kind, id, h) ==
    [task |-> t, kind |-> kind, id |-> id, h |-> h, stage |-> "sent",
     resp |-> SendFailed]
Answered(m, resp) == [m EXCEPT !.stage = "answered", !.resp = resp]

InFlight(t, kind) == {m \in net : m.task = t /\ m.kind = kind}
Arrived(t, kind) == {m \in InFlight(t, kind) : m.stage = "answered"}

\* no call has been made yet
NoCalls ==
    /\ now = 0
    /\ remote = [h \in Handles |-> NoExecution]
    /\ net = {}
    /\ pc = [t \in Waiters |-> "start"]
    /\ hnd = [t \in Waiters |-> Null]
    /\ timeout = [t \in Waiters |-> 0]
    /\ start = [t \in Waiters |-> 0]
    /\ sleepUntil = [t \in Waiters |-> 0]
    /\ outcome = [t \in Waiters |-> None]
    /\ cpc = [c \in Cancellers |-> "start"]
    /\ coutcome = [c \in Cancellers |-> None]
    /\ polls = [t \in Waiters |-> 0]
    /\ fetches = [t \in Waiters |-> 0]
    /\ observed = [t \in Waiters |-> <<>>]
    /\ lastIssue = [t \in Waiters |-> 0]
    /\ lastRet = [t \in Waiters |-> 0]
    /\ lastResp = [t \in Waiters |-> SendFailed]
    /\ cancelCall = [t \in Waiters |-> -1]
    /\ cancelDone = [t \in Waiters |-> -1]

\* no response is being handled
NoResponse ==
    /\ response = SendFailed
    /\ handled = [json |-> None, text |-> None]

\* the key the callers of the requests built their client with
SomeKey == <<97, 97>>

\* A client built by DuneClient::new, no request made yet.
Init ==
    /\ NoCalls
    /\ apiKey = SomeKey
    /\ baseUrl = BASE_URL
    /\ client = WithBaseUrl(SomeKey, BASE_URL, TRUE)
    /\ NoResponse

\* ------------------------------------------------------------ construction
\* Before the constructor is called, for each api_key.
InitNew ==
    /\ NoCalls
    /\ apiKey \in Keys
    /\ baseUrl = Null
    /\ client = None
    /\ NoResponse

\* DuneClient::new(api_key)
CallNew(builds) ==
    /\ client = None
    /\ baseUrl' = BASE_URL
    /\ client' = WithBaseUrl(apiKey, BASE_URL, builds)
    /\ UNCHANGED <<apiKey, respVars, now, remote, net, waitVars, histVars,
                   cancelHist, cancelVars>>

\* DuneClient::with_base_url(api_key, base_url)
CallWithBaseUrl(base_url, builds) ==
    /\ client = None
    /\ baseUrl' = base_url
    /\ client' = WithBaseUrl(apiKey, base_url, builds)
    /\ UNCHANGED <<apiKey, respVars, now, remote, net, waitVars, histVars,
                   cancelHist, cancelVars>>

NextNew ==
    \/ \E builds \in BOOLEAN : CallNew(builds)
    \/ \E base_url \in BaseUrls, builds \in BOOLEAN :
          CallWithBaseUrl(base_url, builds)

SpecNew == InitNew /\ [][NextNew]_vars

\* -------------------------------------------------------- response handling
\* the response types of the JSON operations: submit, status, results, cancel
Shapes == {"ExecuteResponse", "ExecutionStatusResponse",
           "ExecutionResultsResponse", "CancelExecutionResponse"}
StatusCodes == {200, 400, 404, 500}
\* Bodies a response can carry: the payload of each operation, the bodies of
\* a rejection, JSON whose `error` is not a string, and the empty body
\* (also what `response.text().await.unwrap_or_default()` makes of a body
\* that cannot be read).
Bodies ==
    {JsonBody(ExecuteResponse("A")),
     JsonBody(ExecutionStatusResponse("A", "Completed")),
     JsonBody(ExecutionResultsResponse("A", "Completed", "r1")),
     JsonBody(CancelExecutionResponse(TRUE)),
     JsonBody([shape |-> "none", error |-> 5]),
     TextBody("")} \cup ErrorBodies
Responses == {HttpResponse(code, body) : code \in StatusCodes, body \in Bodies}

\* A response has arrived, for each status code and body.
InitResp ==
    /\ NoCalls
    /\ apiKey = SomeKey
    /\ baseUrl = BASE_URL
    /\ client = WithBaseUrl(SomeKey, BASE_URL, TRUE)
    /\ response \in Responses
    /\ handled = [json |-> None, text |-> None]

\* self.handle_response::<T>(response).await, T being the type of `shape`
CallHandleResponse(shape) ==
    /\ handled.json = None
    /\ handled' = [handled EXCEPT
                      !.json = [shape |-> shape,
                                result |-> HandleResponse(response, shape)]]
    /\ UNCHANGED <<ctorVars, response, now, remote, net, waitVars, histVars,
                   cancelHist, cancelVars>>

\* self.handle_text_response(response).await
CallHandleTextResponse ==
    /\ handled.text = None
    /\ handled' = [handled EXCEPT
                      !.text = [result |-> HandleTextResponse(response)]]
    /\ UNCHANGED <<ctorVars, response, now, remote, net, waitVars, histVars,
                   cancelHist, cancelVars>>

NextResp ==
    \/ \E shape \in Shapes : CallHandleResponse(shape)
    \/ CallHandleTextResponse

SpecResp == InitResp /\ [][NextResp]_vars

\* ------------------------------------------------------------ environment
\* The clock advances.
Tick ==
    /\ now < MaxTime
    /\ now' = now + 1
    /\ UNCHANGED <<pureVars, remote, net, waitVars, histVars, cancelHist, cancelVars>>

\* The service moves an execution that is not terminal: to the other
\* non-terminal state, or to a terminal one (Cancelled: cancelled elsewhere).
RemoteStep(h, s) ==
    /\ remote[h] \in NonTerminal
    /\ s # remote[h]
    /\ remote' = [remote EXCEPT ![h] = s]
    /\ UNCHANGED <<pureVars, now, net, waitVars, histVars, cancelHist, cancelVars>>

\* POST /v1/sql/execute, /v1/query/{id}/execute: a new execution, Pending,
\* under the next free execution id
ServeSubmit(m, h) ==
    /\ m.kind = "submit" /\ m.stage = "sent"
    /\ remote[h] = NoExecution
    /\ \A i, j \in DOMAIN HandleSeq :
          (HandleSeq[j] = h /\ i < j) => remote[HandleSeq[i]] # NoExecution
    /\ remote' = [remote EXCEPT ![h] = "Pending"]
    /\ net' = (net \ {m}) \cup
              {Answered(m, HttpResponse(200, JsonBody(ExecuteResponse(h))))}
    /\ UNCHANGED <<pureVars, now, waitVars, histVars, cancelHist, cancelVars>>

\* GET /v1/execution/{id}/status
ServeStatus(m) ==
    /\ m.kind = "status" /\ m.stage = "sent"
    /\ remote[m.h] \in States
    /\ net' = (net \ {m}) \cup
              {Answered(m, HttpResponse(200,
                  JsonBody(ExecutionStatusResponse(m.h, remote[m.h]))))}
    /\ UNCHANGED <<pureVars, now, remote, waitVars, histVars, cancelHist, cancelVars>>

\* GET /v1/execution/{id}/results
ServeResults(m, r) ==
    /\ m.kind = "results" /\ m.stage = "sent"
    /\ remote[m.h] \in States
    /\ IF remote[m.h] = "Completed" THEN r \in Rows ELSE r = Null
    /\ net' = (net \ {m}) \cup
              {Answered(m, HttpResponse(200,
                  JsonBody(ExecutionResultsResponse(m.h, remote[m.h], r))))}
    /\ UNCHANGED <<pureVars, now, remote, waitVars, histVars, cancelHist, cancelVars>>

\* POST /v1/execution/{id}/cancel: an execution that is not terminal becomes
\* Cancelled.
ServeCancel(m) ==
    /\ m.kind = "cancel" /\ m.stage = "sent"
    /\ remote[m.h] \in States
    /\ LET applies == remote[m.h] \in NonTerminal IN
       /\ remote' = [remote EXCEPT ![m.h] =
                        IF applies THEN "Cancelled" ELSE remote[m.h]]
       /\ net' = (net \ {m}) \cup
                 {Answered(m, HttpResponse(200,
                     JsonBody(CancelExecutionResponse(applies))))}
       /\ cancelDone' = [t \in Waiters |->
                           IF applies /\ InWait(t) /\ hnd[t] = m.h
                           THEN polls[t] ELSE cancelDone[t]]
    /\ UNCHANGED <<pureVars, now, waitVars, histVars, cancelCall, cancelVars>>

\* The service answers with a non-success status.
ServeReject(m, code, body) ==
    /\ m.stage = "sent"
    /\ ~IsSuccess(code)
    /\ net' = (net \ {m}) \cup {Answered(m, HttpResponse(code, body))}
    /\ UNCHANGED <<pureVars, now, remote, waitVars, histVars, cancelHist, cancelVars>>

\* The service answers 200 with a body that is not the expected JSON.
ServeUndecodable(m, body) ==
    /\ m.stage = "sent"
    /\ net' = (net \ {m}) \cup {Answered(m, HttpResponse(200, body))}
    /\ UNCHANGED <<pureVars, now, remote, waitVars, histVars, cancelHist, cancelVars>>

\* The transport fails: send() returns an error.
TransportFail(m) ==
    /\ m.stage = "sent"
    /\ net' = (net \ {m}) \cup {Answered(m, SendFailed)}
    /\ UNCHANGED <<pureVars, now, remote, waitVars, histVars, cancelHist, cancelVars>>


\* ----------------------------------------------------------------- client
\* (variant: gives up when the next sleep would overrun the budget)
TimedOutEarly(elapsed, to) == elapsed + PollInterval > to

\* (variant: one poll interval of grace before giving up)
TimedOutLate(elapsed, to) == elapsed > to + PollInterval

\* (variant: the budget counts as exceeded once it is used up)
TimedOutAtLimit(elapsed, to) == elapsed >= to

\* (variant: the budget is never found exceeded)
TimedOutNever(elapsed, to) == FALSE

\* `if start.elapsed() > timeout`
TimedOut(elapsed, to) == elapsed > to

\* (variant: Completed is polled again like a state in progress)
ArmCompletedSleeps(state) ==
    CASE state = "Failed" -> "failed"
      [] state = "Cancelled" -> "cancelled"
      [] state \in NonTerminal \cup {"Completed"} -> "sleep"

\* (variant: only Completed and Failed leave the loop, as in the manual
\* loop of the crate documentation)
ArmCancelledSleeps(state) ==
    CASE state = "Completed" -> "results"
      [] state = "Failed" -> "failed"
      [] state \in NonTerminal \cup {"Cancelled"} -> "sleep"

\* (variant: Cancelled shares the arm of Completed)
ArmCancelledFetches(state) ==
    CASE state \in {"Completed", "Cancelled"} -> "results"
      [] state = "Failed" -> "failed"
      [] state \in NonTerminal -> "sleep"

\* `match status.state`: the arm taken
Arm(state) ==
    CASE state = "Completed" -> "results"
      [] state = "Failed" -> "failed"
      [] state = "Cancelled" -> "cancelled"
      [] state \in NonTerminal -> "sleep"

\* (variant: a failed poll is tried again after the usual sleep)
ArmOfRetry(r) == IF r.kind = "Ok" THEN Arm(r.value.state) ELSE "sleep"

\* `let status = get_execution_status(..).await?; match status.state`:
\* an Err leaves the function, an Ok takes an arm
ArmOf(r) == IF r.kind = "Ok" THEN Arm(r.value.state) ELSE "error"

\* (variant: an error is wrapped with the execution id before it is returned)
PropagateWithContext(t, r) ==
    IF r.kind = "Ok" THEN r
    ELSE [kind |-> r.kind, execution_id |-> hnd[t], source |-> r]

\* the `?` after get_execution_status(..).await and the plain return of
\* get_execution_results(..).await: the callee's Result as it is
Propagate(t, r) == r

\* run_sql / run_query: execute_sql(sql).await
RunSql(t, to) ==
    /\ pc[t] = "start"
    /\ timeout' = [timeout EXCEPT ![t] = to]
    /\ net' = net \cup {Request(t, "submit", 0, Null)}
    /\ pc' = [pc EXCEPT ![t] = "awaitSubmit"]
    /\ UNCHANGED <<pureVars, now, remote, hnd, start, sleepUntil, outcome, histVars,
                   cancelHist, cancelVars>>

\* run_sql / run_query: the submit returned; on Ok wait_for_results starts
\* with the returned execution_id and takes `start`.
RecvSubmit(t) ==
    /\ pc[t] = "awaitSubmit"
    /\ \E m \in Arrived(t, "submit") :
          LET r == Received(m.resp, "ExecuteResponse") IN
          /\ net' = net \ {m}
          /\ IF r.kind = "Ok"
             THEN /\ hnd' = [hnd EXCEPT ![t] = r.value.execution_id]
                  /\ start' = [start EXCEPT ![t] = now]
                  /\ pc' = [pc EXCEPT ![t] = "loop"]
                  /\ UNCHANGED outcome
             ELSE /\ outcome' = [outcome EXCEPT ![t] = r]
                  /\ pc' = [pc EXCEPT ![t] = "done"]
                  /\ UNCHANGED <<hnd, start>>
    /\ UNCHANGED <<pureVars, now, remote, timeout, sleepUntil, histVars, cancelHist,
                   cancelVars>>

\* execute_sql / execute_query called on its own
ExecuteSql(t) ==
    /\ pc[t] = "start"
    /\ net' = net \cup {Request(t, "submit", 0, Null)}
    /\ pc' = [pc EXCEPT ![t] = "awaitExecute"]
    /\ UNCHANGED <<pureVars, now, remote, hnd, timeout, start, sleepUntil, outcome,
                   histVars, cancelHist, cancelVars>>

\* execute_sql returned: the caller holds the execution_id, or the error
RecvExecute(t) ==
    /\ pc[t] = "awaitExecute"
    /\ \E m \in Arrived(t, "submit") :
          LET r == Received(m.resp, "ExecuteResponse") IN
          /\ net' = net \ {m}
          /\ IF r.kind = "Ok"
             THEN /\ hnd' = [hnd EXCEPT ![t] = r.value.execution_id]
                  /\ pc' = [pc EXCEPT ![t] = "submitted"]
                  /\ UNCHANGED outcome
             ELSE /\ outcome' = [outcome EXCEPT ![t] = r]
                  /\ pc' = [pc EXCEPT ![t] = "done"]
                  /\ UNCHANGED hnd
    /\ UNCHANGED <<pureVars, now, remote, timeout, start, sleepUntil, histVars,
                   cancelHist, cancelVars>>

\* wait_for_results called directly: with the execution_id execute_sql
\* returned, or with any other one
WaitForResults(t, h, to) ==
    /\ \/ pc[t] = "submitted" /\ h = hnd[t]
       \/ pc[t] = "start"
    /\ hnd' = [hnd EXCEPT ![t] = h]
    /\ timeout' = [timeout EXCEPT ![t] = to]
    /\ start' = [start EXCEPT ![t] = now]
    /\ pc' = [pc EXCEPT ![t] = "loop"]
    /\ UNCHANGED <<pureVars, now, remote, net, sleepUntil, outcome, histVars, cancelHist,
                   cancelVars>>

\* (variant: the status request is sent without awaiting the answer to the
\* one before)
LoopHeadPipelined(t) ==
    /\ pc[t] \in {"loop", "awaitStatus"}
    /\ polls[t] < 2
    /\ net' = net \cup {Request(t, "status", polls[t] + 1, hnd[t])}
    /\ polls' = [polls EXCEPT ![t] = @ + 1]
    /\ lastIssue' = [lastIssue EXCEPT ![t] = now]
    /\ pc' = [pc EXCEPT ![t] = "awaitStatus"]
    /\ UNCHANGED <<pureVars, now, remote, hnd, timeout, start, sleepUntil, outcome,
                   fetches, observed, lastRet, lastResp, cancelHist, cancelVars>>

\* (variant: an execution that ran out of time is cancelled on the way out)
LoopHeadCancelsOnTimeout(t) ==
    /\ pc[t] = "loop"
    /\ IF TimedOut(now - start[t], timeout[t])
       THEN /\ outcome' = [outcome EXCEPT
                              ![t] = TimeoutError(AsSecs(timeout[t]))]
            /\ pc' = [pc EXCEPT ![t] = "done"]
            /\ net' = net \cup {Request(t, "cancel", 0, hnd[t])}
            /\ UNCHANGED <<polls, lastIssue>>
       ELSE /\ net' = net \cup {Request(t, "status", polls[t] + 1, hnd[t])}
            /\ polls' = [polls EXCEPT ![t] = @ + 1]
            /\ lastIssue' = [lastIssue EXCEPT ![t] = now]
            /\ pc' = [pc EXCEPT ![t] = "awaitStatus"]
            /\ UNCHANGED outcome
    /\ UNCHANGED <<pureVars, now, remote, hnd, timeout, start, sleepUntil, fetches,
                   observed, lastRet, lastResp, cancelHist, cancelVars>>

\* (variant: the client remembers when its oldest running wait started and
\* measures every wait from there)
LoopHeadSharedStart(t) ==
    /\ pc[t] = "loop"
    /\ LET running == {start[u] : u \in {w \in Waiters : InWait(w)}}
           first == CHOOSE s \in running : \A o \in running : s <= o
       IN
       IF TimedOut(now - first, timeout[t])
       THEN /\ outcome' = [outcome EXCEPT
                              ![t] = TimeoutError(AsSecs(timeout[t]))]
            /\ pc' = [pc EXCEPT ![t] = "done"]
            /\ UNCHANGED <<net, polls, lastIssue>>
       ELSE /\ net' = net \cup {Request(t, "status", polls[t] + 1, hnd[t])}
            /\ polls' = [polls EXCEPT ![t] = @ + 1]
            /\ lastIssue' = [lastIssue EXCEPT ![t] = now]
            /\ pc' = [pc EXCEPT ![t] = "awaitStatus"]
            /\ UNCHANGED outcome
    /\ UNCHANGED <<pureVars, now, remote, hnd, timeout, start, sleepUntil, fetches,
                   observed, lastRet, lastResp, cancelHist, cancelVars>>

\* head of the loop: the timeout check, then the status request
LoopHead(t) ==
    /\ pc[t] = "loop"
    /\ IF TimedOut(now - start[t], timeout[t])
       THEN /\ outcome' = [outcome EXCEPT
                              ![t] = TimeoutError(AsSecs(timeout[t]))]
            /\ pc' = [pc EXCEPT ![t] = "done"]
            /\ UNCHANGED <<net, polls, lastIssue>>
       ELSE /\ net' = net \cup {Request(t, "status", polls[t] + 1, hnd[t])}
            /\ polls' = [polls EXCEPT ![t] = @ + 1]
            /\ lastIssue' = [lastIssue EXCEPT ![t] = now]
            /\ pc' = [pc EXCEPT ![t] = "awaitStatus"]
            /\ UNCHANGED outcome
    /\ UNCHANGED <<pureVars, now, remote, hnd, timeout, start, sleepUntil, fetches,
                   observed, lastRet, lastResp, cancelHist, cancelVars>>

\* get_execution_status returned: `?`, then the match on status.state
RecvStatus(t) ==
    /\ pc[t] = "awaitStatus"
    /\ \E m \in Arrived(t, "status") :
          LET r == Received(m.resp, "ExecutionStatusResponse")
              arm == ArmOf(r)
          IN
          /\ lastResp' = [lastResp EXCEPT ![t] = m.resp]
          /\ lastRet' = [lastRet EXCEPT ![t] = now]
          /\ observed' = [observed EXCEPT ![t] =
                             IF r.kind = "Ok" THEN Append(@, r.value.state)
                             ELSE @]
          /\ CASE arm = "error" ->
                    /\ outcome' = [outcome EXCEPT ![t] = Propagate(t, r)]
                    /\ pc' = [pc EXCEPT ![t] = "done"]
                    /\ net' = net \ {m}
                    /\ UNCHANGED <<fetches, sleepUntil>>
               [] arm = "results" ->
                    /\ net' = (net \ {m}) \cup
                              {Request(t, "results", fetches[t] + 1, hnd[t])}
                    /\ fetches' = [fetches EXCEPT ![t] = @ + 1]
                    /\ pc' = [pc EXCEPT ![t] = "awaitResults"]
                    /\ UNCHANGED <<outcome, sleepUntil>>
               [] arm = "failed" ->
                    /\ outcome' = [outcome EXCEPT
                                      ![t] = ExecutionFailedError(hnd[t], r.value)]
                    /\ pc' = [pc EXCEPT ![t] = "done"]
                    /\ net' = net \ {m}
                    /\ UNCHANGED <<fetches, sleepUntil>>
               [] arm = "cancelled" ->
                    /\ outcome' = [outcome EXCEPT ![t] = CancelledError]
                    /\ pc' = [pc EXCEPT ![t] = "done"]
                    /\ net' = net \ {m}
                    /\ UNCHANGED <<fetches, sleepUntil>>
               [] arm = "sleep" ->
                    /\ sleepUntil' = [sleepUntil EXCEPT
                                         ![t] = now + PollInterval]
                    /\ pc' = [pc EXCEPT ![t] = "sleeping"]
                    /\ net' = net \ {m}
                    /\ UNCHANGED <<fetches, outcome>>
    /\ UNCHANGED <<pureVars, now, remote, hnd, timeout, start, polls, lastIssue,
                   cancelHist, cancelVars>>

\* (variant: the sleep future is dropped without being awaited)
WakeNoAwait(t) ==
    /\ pc[t] = "sleeping"
    /\ pc' = [pc EXCEPT ![t] = "loop"]
    /\ UNCHANGED <<pureVars, now, remote, net, hnd, timeout, start, sleepUntil, outcome,
                   histVars, cancelHist, cancelVars>>

\* tokio::time::sleep(poll_interval) is over: back to the head of the loop
Wake(t) ==
    /\ pc[t] = "sleeping"
    /\ now >= sleepUntil[t]
    /\ pc' = [pc EXCEPT ![t] = "loop"]
    /\ UNCHANGED <<pureVars, now, remote, net, hnd, timeout, start, sleepUntil, outcome,
                   histVars, cancelHist, cancelVars>>

\* (variant: a failed results fetch sends the wait back to polling)
RecvResultsRepolls(t) ==
    /\ pc[t] = "awaitResults"
    /\ \E m \in Arrived(t, "results") :
          LET r == Received(m.resp, "ExecutionResultsResponse") IN
          /\ net' = net \ {m}
          /\ lastResp' = [lastResp EXCEPT ![t] = m.resp]
          /\ IF r.kind = "Ok"
             THEN /\ outcome' = [outcome EXCEPT ![t] = r]
                  /\ pc' = [pc EXCEPT ![t] = "done"]
             ELSE /\ pc' = [pc EXCEPT ![t] = "loop"]
                  /\ UNCHANGED outcome
    /\ UNCHANGED <<pureVars, now, remote, hnd, timeout, start, sleepUntil, polls, fetches,
                   observed, lastIssue, lastRet, cancelHist, cancelVars>>

\* get_execution_results returned: wait_for_results returns its Result
RecvResults(t) ==
    /\ pc[t] = "awaitResults"
    /\ \E m \in Arrived(t, "results") :
          /\ net' = net \ {m}
          /\ lastResp' = [lastResp EXCEPT ![t] = m.resp]
          /\ outcome' = [outcome EXCEPT ![t] =
                Propagate(t, Received(m.resp, "ExecutionResultsResponse"))]
    /\ pc' = [pc EXCEPT ![t] = "done"]
    /\ UNCHANGED <<pureVars, now, remote, hnd, timeout, start, sleepUntil, polls, fetches,
                   observed, lastIssue, lastRet, cancelHist, cancelVars>>

\* cancel_execution, called by another task while a wait on the same
\* execution_id is in progress: the POST is sent
CancelExecution(c, h) ==
    /\ cpc[c] = "start"
    /\ \E t \in Tasks : InWait(t) /\ hnd[t] = h
    /\ net' = net \cup {Request(c, "cancel", 0, h)}
    /\ cpc' = [cpc EXCEPT ![c] = "awaitCancel"]
    /\ cancelCall' = [t \in Waiters |->
                         IF cancelCall[t] = -1 /\ InWait(t) /\ hnd[t] = h
                         THEN polls[t] ELSE cancelCall[t]]
    /\ UNCHANGED <<pureVars, now, remote, waitVars, histVars, cancelDone, coutcome>>

\* cancel_execution: handle_response on the answer
RecvCancel(c) ==
    /\ cpc[c] = "awaitCancel"
    /\ \E m \in Arrived(c, "cancel") :
          /\ net' = net \ {m}
          /\ coutcome' = [coutcome EXCEPT
                             ![c] = Received(m.resp, "CancelExecutionResponse")]
    /\ cpc' = [cpc EXCEPT ![c] = "done"]
    /\ UNCHANGED <<pureVars, now, remote, waitVars, histVars, cancelHist>>

\* ---------------------------------------------------------- specification
ErrorCodes == {400}

Next ==
    \/ Tick
    \/ \E h \in Handles, s \in States : RemoteStep(h, s)
    \/ \E m \in net, h \in Handles : ServeSubmit(m, h)
    \/ \E m \in net : ServeStatus(m)
    \/ \E m \in net, r \in Rows \cup {Null} : ServeResults(m, r)
    \/ \E m \in net, code \in ErrorCodes, body \in ErrorBodies :
          ServeReject(m, code, body)
    \/ \E m \in net, body \in UndecodableBodies : ServeUndecodable(m, body)
    \/ \E m \in net : TransportFail(m)
    \/ \E t \in Tasks, to \in Timeouts : RunSql(t, to)
    \/ \E t \in Tasks : RecvSubmit(t)
    \/ \E t \in Tasks : ExecuteSql(t)
    \/ \E t \in Tasks : RecvExecute(t)
    \/ \E t \in Tasks, h \in Handles, to \in Timeouts : WaitForResults(t, h, to)
    \/ \E t \in Tasks : LoopHead(t)
    \/ \E t \in Tasks : RecvStatus(t)
    \/ \E t \in Tasks : Wake(t)
    \/ \E t \in Tasks : RecvResults(t)

Spec == Init /\ [][Next]_vars

\* The same with a task that calls cancel_execution.
NextCancel ==
    \/ Next
    \/ \E c \in Cancellers, h \in Handles : CancelExecution(c, h)
    \/ \E m \in net : ServeCancel(m)
    \/ \E c \in Cancellers : RecvCancel(c)

SpecCancel == Init /\ [][NextCancel]_vars

\* ------------------------------------------------------------- fairness
\* The clock does not stop at MaxTime while a sleep is waiting for it; a
\* wait is over at most its timeout and two poll intervals later.
ClockEnd == MaxTime + MaxTimeout + 2 * PollInterval
TickWhileSleeping ==
    /\ now >= MaxTime /\ now < ClockEnd
    /\ \E t \in Tasks : pc[t] = "sleeping" /\ now < sleepUntil[t]
    /\ now' = now + 1
    /\ UNCHANGED <<pureVars, remote, net, waitVars, histVars, cancelHist,
                   cancelVars>>

\* some request in flight gets its answer, or fails in the transport
Answer ==
    \E m \in net :
       \/ \E h \in Handles : ServeSubmit(m, h)
       \/ ServeStatus(m)
       \/ \E r \in Rows \cup {Null} : ServeResults(m, r)
       \/ \E code \in ErrorCodes, body \in ErrorBodies :
             ServeReject(m, code, body)
       \/ \E body \in UndecodableBodies : ServeUndecodable(m, body)
       \/ TransportFail(m)

NextLive == Next \/ TickWhileSleeping

\* Every request eventually returns, the clock advances, and the runtime
\* resumes a task that can go on.
Fairness ==
    /\ WF_vars(Tick)
    /\ WF_vars(TickWhileSleeping)
    /\ WF_vars(Answer)
    /\ \A t \in Tasks :
          /\ WF_vars(LoopHead(t))
          /\ WF_vars(RecvStatus(t))
          /\ WF_vars(Wake(t))
          /\ WF_vars(RecvResults(t))

SpecLive == Init /\ [][NextLive]_vars /\ Fairness

\* Two callers of run_sql at once, each on the execution its own submit
\* created: t1 first, with the short timeout, then t2 with either timeout.
\* A request fails in the transport or is answered; an execution goes from
\* Pending to a terminal state; the clock is followed for one poll interval,
\* enough for the short timeout to run out.
TimeoutsTwo == {1, MaxTimeout}
MaxTimeTwo == PollInterval
NextTwo ==
    \/ now < MaxTimeTwo /\ Tick
    \/ \E h \in Handles, s \in Terminal : RemoteStep(h, s)
    \/ \E m \in net, h \in Handles : ServeSubmit(m, h)
    \/ \E m \in net : ServeStatus(m)
    \/ \E m \in net, r \in {"r1", Null} : ServeResults(m, r)
    \/ \E m \in net : TransportFail(m)
    \/ \E t \in Waiters, to \in TimeoutsTwo :
          /\ t = "t1" => to = 1
          /\ t = "t2" => pc["t1"] # "start"
          /\ RunSql(t, to)
    \/ \E t \in Waiters : RecvSubmit(t)
    \/ \E t \in Waiters : LoopHead(t)
    \/ \E t \in Waiters : RecvStatus(t)
    \/ \E t \in Waiters : Wake(t)
    \/ \E t \in Waiters : RecvResults(t)

SpecTwo == Init /\ [][NextTwo]_vars


\* ============================================================ properties
Last(seq) == seq[Len(seq)]

\* wait_for_results was entered and has returned
WaitReturned(t) == pc[t] = "done" /\ hnd[t] # Null

\* every status poll answered so far reported a state in progress
AllInProgress(t) == \A i \in 1..Len(observed[t]) : observed[t][i] \in NonTerminal

\* what the last request of the wait returned to wait_for_results
LastResult(t) ==
    Received(lastResp[t],
             IF fetches[t] > 0 THEN "ExecutionResultsResponse"
             ELSE "ExecutionStatusResponse")

\* C1: when the status polls of a wait report n states in progress and then
\* Completed, the wait issues exactly n+1 status polls and exactly one
\* results fetch, and returns exactly what that fetch returned.
C1_CompletedReturnsFetch ==
    \A t \in Tasks :
       (Len(observed[t]) >= 1 /\ Last(observed[t]) = "Completed") =>
          /\ \A i \in 1..(Len(observed[t]) - 1) : observed[t][i] \in NonTerminal
          /\ polls[t] = Len(observed[t])
          /\ fetches[t] = 1
          /\ pc[t] \in {"awaitResults", "done"}
          /\ WaitReturned(t) =>
                outcome[t] = Received(lastResp[t], "ExecutionResultsResponse")

\* Pending, Executing, Completed: three polls, one fetch, the rows returned.
C1_Witness ==
    \E t \in Tasks :
       /\ WaitReturned(t)
       /\ observed[t] = <<"Pending", "Executing", "Completed">>
       /\ polls[t] = 3 /\ fetches[t] = 1
       /\ outcome[t].kind = "Ok"
       /\ outcome[t].value.result = "r2"

\* C2: when a status poll of a wait reports Failed, the wait has returned
\* ExecutionFailed, whose message carries the execution id and the status
\* just received; that wait never requests the results.
C2_FailedNoFetch ==
    \A t \in Tasks :
       (Len(observed[t]) >= 1 /\ Last(observed[t]) = "Failed") =>
          /\ WaitReturned(t)
          /\ outcome[t].kind = "ExecutionFailed"
          /\ Len(outcome[t].message) = 3
          /\ outcome[t].message[2] = hnd[t]
          /\ outcome[t].message[3] = lastResp[t].body.value
          /\ lastResp[t].body.value.state = "Failed"
          /\ fetches[t] = 0
          /\ InFlight(t, "results") = {}
          /\ polls[t] = Len(observed[t])

\* Failed on the first poll.
C2_Witness ==
    \E t \in Tasks :
       /\ WaitReturned(t)
       /\ observed[t] = <<"Failed">>
       /\ polls[t] = 1
       /\ outcome[t].kind = "ExecutionFailed"

\* C3: when a status poll of a wait reports Cancelled, the wait has returned
\* the Cancelled error; it issues no further status poll and never requests
\* the results.
C3_CancelledStops ==
    \A t \in Tasks :
       (\E i \in 1..Len(observed[t]) : observed[t][i] = "Cancelled") =>
          /\ Last(observed[t]) = "Cancelled"
          /\ WaitReturned(t)
          /\ outcome[t] = CancelledError
          /\ polls[t] = Len(observed[t])
          /\ fetches[t] = 0
          /\ InFlight(t, "status") = {} /\ InFlight(t, "results") = {}

\* Cancelled seen after a poll that reported Executing.
C3_Witness ==
    \E t \in Tasks :
       /\ WaitReturned(t)
       /\ observed[t] = <<"Executing", "Cancelled">>
       /\ outcome[t] = CancelledError

\* C4: a wait that has returned Timeout has seen no terminal state in any
\* of its status polls, and at least `timeout` has elapsed since it started;
\* a wait whose polls were all answered with a state in progress can only
\* return Timeout.
C4_TimeoutAfterBudget ==
    \A t \in Tasks :
       /\ (WaitReturned(t) /\ outcome[t].kind = "Timeout") =>
             /\ AllInProgress(t)
             /\ polls[t] = Len(observed[t])
             /\ now - start[t] >= timeout[t]
       /\ (WaitReturned(t) /\ AllInProgress(t) /\ polls[t] = Len(observed[t])) =>
             outcome[t].kind = "Timeout"

\* Timeout after two polls that reported the execution as still Pending.
C4_Witness ==
    \E t \in Tasks :
       /\ WaitReturned(t)
       /\ outcome[t].kind = "Timeout"
       /\ observed[t] = <<"Pending", "Pending">>
       /\ timeout[t] = MaxTimeout
       /\ now - start[t] > timeout[t]


\* C5: Timeout is raised only by the check at the head of the loop, which
\* issues no request; a check within the budget issues a status poll, and
\* when that poll returns its state is acted on whatever time has passed
\* since; a check past the budget raises Timeout instead of polling.
C5_CheckOnlyBeforePoll ==
    [][\A t \in Tasks :
          /\ (outcome[t].kind # "Timeout" /\ outcome'[t].kind = "Timeout") =>
                /\ pc[t] = "loop"
                /\ now - start[t] > timeout[t]
                /\ polls'[t] = polls[t]
                /\ net' = net
          /\ (pc[t] = "loop" /\ pc'[t] # "loop") =>
                IF now - start[t] > timeout[t]
                THEN /\ pc'[t] = "done"
                     /\ outcome'[t].kind = "Timeout"
                     /\ polls'[t] = polls[t]
                ELSE /\ pc'[t] = "awaitStatus"
                     /\ polls'[t] = polls[t] + 1
          /\ (pc[t] = "awaitStatus" /\ pc'[t] # "awaitStatus") =>
                /\ outcome'[t].kind # "Timeout"
                /\ Len(observed'[t]) > Len(observed[t]) =>
                      LET s == Last(observed'[t]) IN
                      /\ s = "Completed" =>
                            pc'[t] = "awaitResults" /\ fetches'[t] = 1
                      /\ s = "Failed" =>
                            pc'[t] = "done" /\ outcome'[t].kind = "ExecutionFailed"
                      /\ s = "Cancelled" =>
                            pc'[t] = "done" /\ outcome'[t] = CancelledError
                      /\ s \in NonTerminal => pc'[t] = "sleeping"
      ]_vars

\* A poll issued within the budget returned Executing after the budget had
\* run out; the wait slept and the next check raised Timeout.
C5_Witness ==
    \E t \in Tasks :
       /\ WaitReturned(t)
       /\ outcome[t].kind = "Timeout"
       /\ observed[t] = <<"Executing">>
       /\ lastIssue[t] - start[t] <= timeout[t]
       /\ lastRet[t] - start[t] > timeout[t]

\* a status poll of the wait returned an error
PollFailed(t) == pc[t] # "awaitStatus" /\ polls[t] > Len(observed[t])

\* C6: when a status poll of a wait fails in the transport, the wait has
\* returned that error: the poll is not repeated, no other request of the
\* wait is in flight and the results were never requested.
C6_TransportErrorAborts ==
    \A t \in Tasks :
       (PollFailed(t) /\ ~lastResp[t].transport) =>
          /\ WaitReturned(t)
          /\ outcome[t].kind = "Http"
          /\ polls[t] = Len(observed[t]) + 1
          /\ fetches[t] = 0
          /\ InFlight(t, "status") = {} /\ InFlight(t, "results") = {}

\* The second poll failed in the transport.
C6_Witness ==
    \E t \in Tasks :
       /\ WaitReturned(t)
       /\ observed[t] = <<"Pending">>
       /\ polls[t] = 2
       /\ ~lastResp[t].transport
       /\ outcome[t] = HttpError

\* the last request of the wait (status poll or results fetch) failed
RequestFailed(t) == polls[t] >= 1 /\ LastResult(t).kind # "Ok"

\* C7 as stated: when a status poll or the results fetch of a wait failed,
\* the wait returns something else than the error of that request (the
\* error with the execution id and the state reached added to it).
C7_ErrorCarriesContext ==
    \A t \in Tasks :
       (WaitReturned(t) /\ RequestFailed(t)) => outcome[t] # LastResult(t)

\* C7, amended: when a status poll or the results fetch of a wait failed,
\* the wait returns the error of that request unchanged.
C7_ErrorUnchanged ==
    \A t \in Tasks :
       (WaitReturned(t) /\ RequestFailed(t)) => outcome[t] = LastResult(t)

\* The results fetch was rejected with {"error": "bad query"}.
C7_Witness ==
    \E t \in Tasks :
       /\ WaitReturned(t)
       /\ fetches[t] = 1
       /\ lastResp[t] = HttpResponse(400, JsonError("bad query"))
       /\ outcome[t] = ApiError("bad query")

\* C8 as stated, read in its favour (the cancel reached the service, which
\* applied it, and every poll of the wait was answered with a status): when
\* cancel is called during a wait on the same execution, the wait ends with
\* the Cancelled error, seen by its next status poll.
C8_NextPollSeesCancelled ==
    \A t \in Tasks :
       (cancelCall[t] >= 0 /\ cancelDone[t] >= 0 /\ WaitReturned(t)
          /\ polls[t] = Len(observed[t])) =>
          /\ outcome[t] = CancelledError
          /\ Last(observed[t]) = "Cancelled"

\* C8, amended: once the service has applied a cancel called during a wait
\* on the same execution, the wait issues at most one more status poll;
\* that poll, when it is answered with a status, reports Cancelled and the
\* wait returns the Cancelled error; the wait never requests the results
\* and returns neither a result nor ExecutionFailed, but it can return
\* Timeout (the check comes before the poll) or the error of a failed poll.
C8_CancelAppliedEndsWait ==
    \A t \in Tasks :
       cancelDone[t] >= 0 =>
          /\ polls[t] <= cancelDone[t] + 1
          /\ fetches[t] = 0
          /\ \A i \in 1..Len(observed[t]) :
                observed[t][i] \in NonTerminal \cup {"Cancelled"}
          /\ (polls[t] = cancelDone[t] + 1 /\ Len(observed[t]) = polls[t]) =>
                Last(observed[t]) = "Cancelled"
          /\ (Len(observed[t]) >= 1 /\ Last(observed[t]) = "Cancelled") =>
                WaitReturned(t) /\ outcome[t] = CancelledError
          /\ WaitReturned(t) =>
                outcome[t].kind \in {"Cancelled", "Timeout", "Http", "Api", "Json"}

\* Cancel called and applied after the first poll reported Executing; the
\* second poll reported Cancelled.
C8_Witness ==
    \E t \in Tasks :
       /\ WaitReturned(t)
       /\ cancelCall[t] = 1 /\ cancelDone[t] = 1
       /\ observed[t] = <<"Executing", "Cancelled">>
       /\ outcome[t] = CancelledError
       /\ \E c \in Cancellers : coutcome[c] = Ok(CancelExecutionResponse(TRUE))

\* C9: a wait has at most one request in flight: a status request exactly
\* while it awaits a status poll, which is then the only one not yet
\* returned, and a results request exactly while it awaits the results,
\* when every status poll has returned.
C9_OneRequestInFlight ==
    \A t \in Tasks :
       /\ Cardinality(InFlight(t, "status") \cup InFlight(t, "results")) <= 1
       /\ InFlight(t, "status") # {} <=> pc[t] = "awaitStatus"
       /\ InFlight(t, "results") # {} <=> pc[t] = "awaitResults"
       /\ pc[t] = "awaitStatus" =>
             /\ polls[t] = Len(observed[t]) + 1
             /\ \A m \in InFlight(t, "status") : m.id = polls[t]
       /\ pc[t] = "awaitResults" =>
             /\ polls[t] = Len(observed[t])
             /\ Last(observed[t]) = "Completed"

\* The third status poll is in flight, the first two have returned.
C9_Witness ==
    \E t \in Tasks :
       /\ pc[t] = "awaitStatus"
       /\ polls[t] = 3
       /\ Len(observed[t]) = 2
       /\ \E m \in InFlight(t, "status") : m.stage = "answered"

\* C10: after a poll that reported Pending or Executing the wait sleeps for
\* the poll interval of one second, the same on every iteration, so that
\* the next status poll is issued at least one second after that poll
\* returned.
C10_FixedPollInterval ==
    \A t \in Tasks :
       /\ (Len(observed[t]) >= 1 /\ Last(observed[t]) \in NonTerminal
             /\ polls[t] = Len(observed[t]) /\ pc[t] # "done") =>
             /\ pc[t] \in {"sleeping", "loop"}
             /\ sleepUntil[t] = lastRet[t] + PollIntervalSecs * UnitsPerSec
             /\ pc[t] = "loop" => now >= sleepUntil[t]
       /\ (pc[t] = "awaitStatus" /\ polls[t] >= 2) =>
             /\ observed[t][polls[t] - 1] \in NonTerminal
             /\ lastIssue[t] >= lastRet[t] + PollIntervalSecs * UnitsPerSec

\* A third poll issued after sleeping once on Pending and once on Executing.
C10_Witness ==
    \E t \in Tasks :
       /\ pc[t] = "awaitStatus"
       /\ polls[t] = 3
       /\ observed[t] = <<"Pending", "Executing">>
       /\ lastIssue[t] = lastRet[t] + PollInterval

\* C11: constructing a client with an empty credential fails with
\* InvalidApiKey, issues no network call and produces no client value.
C11_EmptyKeyRejected ==
    (client # None /\ apiKey = <<>>) =>
       /\ client = InvalidApiKeyError
       /\ client.kind # "Ok"
       /\ net = {}

\* The constructor has returned for the empty key.
C11_Witness ==
    /\ apiKey = <<>>
    /\ client = InvalidApiKeyError
    /\ baseUrl = BASE_URL

\* the bytes RFC 9110 lets a field value hold: tab, visible ASCII and space,
\* and the bytes above the ASCII range
LegalHeaderBytes == {9} \cup (32..126) \cup (128..255)

\* C12 as stated: for every non-empty credential, construction succeeds.
C12_NonEmptyKeyAccepted ==
    (client # None /\ apiKey # <<>>) => client.kind = "Ok"

\* C12, amended: a non-empty credential made only of bytes a header value
\* may hold is never rejected as InvalidApiKey, and the client built from
\* it carries that credential, the given base URL and the default timeout
\* (construction can still fail when the HTTP client cannot be built); a
\* non-empty credential holding any other byte fails with InvalidApiKey.
C12_WellFormedKeyAccepted ==
    (client # None /\ apiKey # <<>>) =>
       /\ (\A i \in 1..Len(apiKey) : apiKey[i] \in LegalHeaderBytes) =>
             /\ client.kind \in {"Ok", "Http"}
             /\ client.kind = "Ok" =>
                   /\ client.value.headers.XDuneApiKey = apiKey
                   /\ client.value.base_url = baseUrl
                   /\ client.value.timeout = DEFAULT_TIMEOUT_SECS
       /\ (\E i \in 1..Len(apiKey) : apiKey[i] \notin LegalHeaderBytes) =>
             client = InvalidApiKeyError

\* A client built from a key that holds a byte above the ASCII range.
C12_Witness ==
    /\ client.kind = "Ok"
    /\ \E i \in 1..Len(apiKey) : apiKey[i] > 127

\* C13: for the JSON operations a response with a non-success status maps
\* to an Api error; when the body is a JSON object with a string `error`
\* field the message is exactly that string ({"error":"bad query"} gives
\* "bad query"), otherwise the message is the status and the body verbatim;
\* such a response never yields a success value or a decode failure.
C13_RejectionIsApiError ==
    (handled.json # None /\ ~(response.code \in 200..299)) =>
       LET got == handled.json.result
           body == response.body
       IN  /\ got.kind = "Api"
           /\ got.kind \notin {"Ok", "Json"}
           /\ body = JsonError("bad query") => got.message = "bad query"
           /\ (body.json /\ body.error # NoField) => got.message = body.error
           /\ ~(body.json /\ body.error # NoField) =>
                 got.message = <<"HTTP", response.code, body>>

\* The results operation got a 404 whose JSON body has a string `error`.
C13_Witness ==
    /\ handled.json # None
    /\ handled.json.shape = "ExecutionResultsResponse"
    /\ response = HttpResponse(404, JsonError("bad query"))
    /\ handled.json.result = ApiError("bad query")

\* C14: for the same non-success response, also one whose body has a string
\* `error` field, the results operation and the CSV results operation fail
\* with an Api error carrying the same message.
C14_CsvSameError ==
    (/\ handled.json # None
     /\ handled.json.shape = "ExecutionResultsResponse"
     /\ handled.text # None
     /\ ~(response.code \in 200..299)) =>
       /\ handled.json.result.kind = "Api"
       /\ handled.text.result.kind = "Api"
       /\ handled.text.result.message = handled.json.result.message

\* C15: the Timeout error of the wait carries the configured timeout: for
\* every duration the caller passes, also one that is not a whole number of
\* seconds, the value carried (in seconds) is that duration.
C15_TimeoutCarriesDuration ==
    \A t \in Tasks :
       (WaitReturned(t) /\ outcome[t].kind = "Timeout") =>
          outcome[t].seconds * UnitsPerSec = timeout[t]

\* all that the client and the history hold about one caller
Local(t) ==
    <<pc[t], hnd[t], timeout[t], start[t], sleepUntil[t], outcome[t], polls[t],
      fetches[t], observed[t], lastIssue[t], lastRet[t], lastResp[t]>>
\* the requests of one caller
Msgs(t) == {m \in net : m.task = t}

\* what a wait that has returned must have returned, from its own timeout
\* and the answers to its own requests
Determined(t) ==
    IF polls[t] > Len(observed[t]) THEN LastResult(t)
    ELSE IF AllInProgress(t) THEN TimeoutError(timeout[t] \div UnitsPerSec)
    ELSE CASE Last(observed[t]) = "Completed" -> LastResult(t)
           [] Last(observed[t]) = "Failed" ->
                 [kind |-> "ExecutionFailed",
                  message |-> <<"Query execution failed for execution_id",
                                hnd[t], lastResp[t].body.value>>]
           [] Last(observed[t]) = "Cancelled" -> CancelledError

\* the requests and the outcome of each wait follow from its own handle,
\* its own timeout and the answers it got
OwnHistoryOnly ==
    \A t \in Waiters :
       /\ \A u \in Waiters \ {t} : hnd[t] # Null => hnd[t] # hnd[u]
       /\ \A m \in Msgs(t) :
             /\ m.kind \in {"status", "results"} => m.h = hnd[t]
             /\ m.kind = "submit" => hnd[t] = Null
       /\ \A i \in 1..(Len(observed[t]) - 1) : observed[t][i] \in NonTerminal
       /\ polls[t] \in {Len(observed[t]), Len(observed[t]) + 1}
       /\ fetches[t] = IF \E i \in 1..Len(observed[t]) :
                             observed[t][i] = "Completed" THEN 1 ELSE 0
       /\ WaitReturned(t) =>
             /\ outcome[t] = Determined(t)
             /\ outcome[t].kind = "Timeout" => now - start[t] > timeout[t]

\* C16: concurrent waits on distinct handles are independent: in every
\* interleaving a step of one caller, or of the service on that caller's
\* request, leaves alone all that belongs to the other caller (its position,
\* handle, timeout, start, requests in flight, history and outcome) and the
\* remote state of the other's execution, and the requests and the outcome
\* of each wait follow from its own handle, timeout and answers only.
C16_WaitsIndependent ==
    [][/\ \A t \in Waiters : \A u \in Waiters \ {t} :
             (Local(u)' # Local(u) \/ Msgs(u)' # Msgs(u)) =>
                /\ Local(t)' = Local(t)
                /\ Msgs(t)' = Msgs(t)
                /\ hnd[t] # Null => remote'[hnd[t]] = remote[hnd[t]]
       /\ OwnHistoryOnly']_vars

\* Two waits that ran side by side on distinct executions: the one with the
\* short timeout ended in Timeout, the other one returned the rows after it
\* had been started later.
C16_Witness ==
    /\ WaitReturned("t1") /\ WaitReturned("t2")
    /\ hnd["t1"] # hnd["t2"]
    /\ outcome["t1"].kind = "Timeout"
    /\ outcome["t2"].kind = "Ok"
    /\ timeout["t1"] # timeout["t2"]
    /\ start["t2"] > start["t1"]

\* C17: the wait only observes the remote execution: a step of the wait
\* leaves the remote state of every execution as it is and sends nothing
\* but a status GET or a results GET for its own handle, the results GET at
\* most once; no request of the wait is a cancel or a submit; the step that
\* ends in Timeout sends nothing, so the execution keeps its state and is
\* not cancelled.
C17_WaitOnlyObserves ==
    [][\A t \in Tasks :
          /\ (InWait(t) /\ pc'[t] # pc[t]) =>
                /\ remote' = remote
                /\ \A m \in net' \ net :
                      /\ m.task = t
                      /\ m.kind \in {"status", "results"}
                      /\ m.h = hnd[t]
                      /\ m.stage = "sent"
                /\ Cardinality(net' \ net) <= 1
                /\ (outcome'[t].kind = "Timeout") => net' = net
          /\ (InWait(t) \/ WaitReturned(t))' =>
                /\ \A m \in Msgs(t)' : m.kind \notin {"cancel", "submit"}
                /\ fetches'[t] <= 1
                /\ Cardinality({m \in Msgs(t)' : m.kind = "results"}) <= 1]_vars

\* A wait that ended in Timeout after two polls while the execution is
\* still Executing on the service.
C17_Witness ==
    \E t \in Tasks :
       /\ WaitReturned(t)
       /\ outcome[t].kind = "Timeout"
       /\ polls[t] = 2
       /\ fetches[t] = 0
       /\ remote[hnd[t]] = "Executing"
       /\ Msgs(t) = {}

\* C18: in every execution of the wait the first status poll that observes
\* a terminal state is its last status poll; the results request is sent at
\* most once, in the step that takes the answer of a poll that observed
\* Completed; the wait returns a success value only if its last status poll
\* observed Completed; and whatever the results fetch returns, an error
\* too, is returned as it is, with no further poll or fetch.
C18_TerminalPollIsLast ==
    [][\A t \in Tasks :
          /\ (\E i \in 1..Len(observed[t]) : observed[t][i] \in Terminal) =>
                /\ polls'[t] = polls[t]
                /\ observed'[t] = observed[t]
                /\ polls[t] = Len(observed[t])
                /\ \A i \in 1..(Len(observed[t]) - 1) :
                      observed[t][i] \in NonTerminal
          /\ fetches'[t] # fetches[t] =>
                /\ fetches[t] = 0 /\ fetches'[t] = 1
                /\ pc[t] = "awaitStatus" /\ pc'[t] = "awaitResults"
                /\ observed'[t] = Append(observed[t], "Completed")
                /\ polls[t] = Len(observed'[t])
          /\ (WaitReturned(t)' /\ outcome'[t].kind = "Ok") =>
                /\ Len(observed'[t]) >= 1
                /\ Last(observed'[t]) = "Completed"
                /\ polls'[t] = Len(observed'[t])
          /\ (pc[t] = "awaitResults" /\ pc'[t] # pc[t]) =>
                /\ pc'[t] = "done"
                /\ outcome'[t] =
                      Received(lastResp'[t], "ExecutionResultsResponse")
                /\ polls'[t] = polls[t] /\ fetches'[t] = fetches[t]
                /\ Msgs(t)' = {}]_vars

\* The results fetch that followed Pending, Completed was rejected by the
\* service, and the wait returned that Api error after its two polls.
C18_Witness ==
    \E t \in Tasks :
       /\ WaitReturned(t)
       /\ observed[t] = <<"Pending", "Completed">>
       /\ polls[t] = 2 /\ fetches[t] = 1
       /\ outcome[t] = ApiError("bad query")
       /\ lastResp[t] = HttpResponse(400, JsonError("bad query"))

\* C19: every wait eventually returns, whatever states the service reports,
\* provided every request eventually returns and the clock advances; the
\* number of status polls of a wait is bounded by its timeout (one poll per
\* poll interval of the budget, and the first one), so an execution that
\* stays Pending or Executing ends the wait in Timeout after finitely many
\* polls.
C19_WaitReturns ==
    /\ \A t \in Tasks : InWait(t) ~> WaitReturned(t)
    /\ [](\A t \in Tasks :
             /\ polls[t] <= timeout[t] \div (PollIntervalSecs * UnitsPerSec) + 1
             /\ (WaitReturned(t) /\ AllInProgress(t)
                   /\ polls[t] = Len(observed[t])) =>
                   outcome[t].kind = "Timeout")

\* An execution that stayed Pending: the wait with the longest timeout
\* polled three times and ended in Timeout after the clock had passed
\* MaxTime.
C19_Witness ==
    \E t \in Tasks :
       /\ WaitReturned(t)
       /\ outcome[t].kind = "Timeout"
       /\ timeout[t] = MaxTimeout
       /\ observed[t] = <<"Pending", "Pending", "Pending">>
       /\ now > MaxTime

\* C20: the timeout comparison is strict and the clock starts when the wait
\* loop starts, which in run_sql is when the submit has returned: `start`
\* is the instant of the step that enters the loop; a check of the loop
\* ends in Timeout if and only if the time elapsed since `start` is
\* strictly greater than the timeout; at a check where it is equal to the
\* timeout, a timeout of zero with nothing elapsed included, no Timeout is
\* raised and a status poll is issued.
C20_StrictTimeoutFromLoopStart ==
    [][\A t \in Tasks :
          /\ (pc[t] \in {"awaitSubmit", "submitted", "start"}
                /\ pc'[t] = "loop") => start'[t] = now
          /\ InWait(t) => start'[t] = start[t]
          /\ (pc[t] = "loop" /\ pc'[t] # "loop") =>
                /\ (now - start[t] > timeout[t]) <=>
                      (pc'[t] = "done" /\ outcome'[t].kind = "Timeout")
                /\ (now - start[t] <= timeout[t]) =>
                      /\ pc'[t] = "awaitStatus"
                      /\ polls'[t] = polls[t] + 1
                      /\ lastIssue'[t] = now
                      /\ \E m \in net' \ net : m.kind = "status"]_vars

\* A wait with a timeout of zero whose loop started after the clock had
\* moved (the submit took time): the first poll went out at that instant.
C20_Witness ==
    \E t \in Tasks :
       /\ pc[t] = "awaitStatus"
       /\ timeout[t] = 0
       /\ start[t] > 0
       /\ polls[t] = 1
       /\ lastIssue[t] = start[t]
       /\ now = start[t]

====
